---------------------------- MODULE Spec2Model ----------------------------
(***************************************************************************)
(* Univariate linear regression by batch gradient descent                  *)
(* (linear-regression/univariate-linear-regression.c).                     *)
(*                                                                         *)
(* The program is one main(): it reads integer pairs into two growable     *)
(* vectors, overlays a settings file on the default settings, opens the    *)
(* output, runs the training loop and closes the output.                   *)
(*                                                                         *)
(* Numbers.  A C double is modelled as a binary floating-point number with *)
(* round-to-nearest-even, infinities and NaN; its precision and exponent   *)
(* range are scaled down (MantDig bits instead of 53) so that rounding and *)
(* overflow happen on numbers TLC can hold.  A C int is modelled with      *)
(* IntBits bits instead of 32 so that the loop counter's whole range is    *)
(* walked.  Signed zeros are not distinguished (0.0 == -0.0 in C).         *)
(***************************************************************************)
EXTENDS Integers, Sequences, FiniteSets, TLC

\* ------------------------------------------------------------------ bounds
\* Width of the significand of a double (53 in the build, scaled down).
MantDig == 4
\* Doubles of magnitude 2^MaxExpPow and above overflow to infinity.
MaxExpPow == 10
\* The smallest positive double is 2^(-MinExpPow) (subnormal spacing).
MinExpPow == 24
\* Width of int (32 in the build, scaled down).
IntBits == 4

INT_MAX == 2 ^ (IntBits - 1) - 1
INT_MIN == -(2 ^ (IntBits - 1))

\* ------------------------------------------------------- double arithmetic
Abs(n) == IF n < 0 THEN -n ELSE n
Sgn(n) == IF n < 0 THEN -1 ELSE 1
Max2(a, b) == IF a >= b THEN a ELSE b
Min2(a, b) == IF a <= b THEN a ELSE b

RECURSIVE BitLen(_)
\* Number of bits of the natural number a (0 for 0).
BitLen(a) == IF a = 0 THEN 0 ELSE 1 + BitLen(a \div 2)

\* The three classes of double values.  A finite value is m * 2^e with m odd
\* (or m = 0, e = 0), so that equal numbers are equal records.
DNaN == [k |-> "nan", m |-> 0, e |-> 0]
DInf(s) == [k |-> "inf", m |-> s, e |-> 0]
DZero == [k |-> "fin", m |-> 0, e |-> 0]

RECURSIVE Norm(_, _)
Norm(m, e) ==
  IF m = 0 THEN DZero
  ELSE IF m % 2 = 0 THEN Norm(m \div 2, e + 1)
  ELSE [k |-> "fin", m |-> m, e |-> e]

IsFin(d) == d.k = "fin"
IsNaN(d) == d.k = "nan"
IsInf(d) == d.k = "inf"

\* a / 2^sh rounded to the nearest integer, ties to even; sticky says that
\* the exact numerator is a little above a.
RoundShift(a, sh, sticky) ==
  IF sh = 0 THEN a
  ELSE LET q == a \div (2 ^ sh)
           r == a % (2 ^ sh)
           half == 2 ^ (sh - 1)
           up == \/ r > half
                 \/ r = half /\ sticky
                 \/ r = half /\ ~sticky /\ q % 2 = 1
       IN  IF up THEN q + 1 ELSE q

\* The double nearest to s * a * 2^e (s the sign, a >= 0): MantDig significant
\* bits, nothing below 2^(-MinExpPow), infinity from 2^MaxExpPow on.
DRound(s, a, e, sticky) ==
  LET nb == BitLen(a)
      sh == Max2(0, Max2(nb - MantDig, (-MinExpPow) - e))
  IN  IF a = 0 THEN DZero
      ELSE IF sh > nb + 1 THEN DZero
      ELSE LET q == RoundShift(a, sh, sticky)
           IN  IF q = 0 THEN DZero
               ELSE IF BitLen(q) + e + sh > MaxExpPow THEN DInf(s)
               ELSE Norm(s * q, e + sh)

\* (double) i for an int i.
DFromInt(i) == DRound(Sgn(i), Abs(i), 0, FALSE)

DNeg(a) == IF IsNaN(a) THEN a ELSE [a EXCEPT !.m = -a.m]

\* a * b on doubles.
DMul(a, b) ==
  IF IsNaN(a) \/ IsNaN(b) THEN DNaN
  ELSE IF IsInf(a) \/ IsInf(b)
       THEN IF a = DZero \/ b = DZero THEN DNaN
            ELSE DInf(Sgn(a.m) * Sgn(b.m))
  ELSE DRound(Sgn(a.m) * Sgn(b.m), Abs(a.m) * Abs(b.m), a.e + b.e, FALSE)

\* Position just above the leading bit of a finite non-zero double.
Top(a) == a.e + BitLen(Abs(a.m))

\* a + b on doubles.  Operands far apart (more than MantDig + 2 binary
\* places) leave the larger one unchanged; otherwise the exact sum is rounded.
DAdd(a, b) ==
  IF IsNaN(a) \/ IsNaN(b) THEN DNaN
  ELSE IF IsInf(a) /\ IsInf(b) THEN (IF a.m = b.m THEN a ELSE DNaN)
  ELSE IF IsInf(a) THEN a
  ELSE IF IsInf(b) THEN b
  ELSE IF a = DZero THEN b
  ELSE IF b = DZero THEN a
  ELSE IF Top(a) - Top(b) > MantDig + 2 THEN a
  ELSE IF Top(b) - Top(a) > MantDig + 2 THEN b
  ELSE LET e0 == Min2(a.e, b.e)
           s == a.m * (2 ^ (a.e - e0)) + b.m * (2 ^ (b.e - e0))
       IN  DRound(Sgn(s), Abs(s), e0, FALSE)

DSub(a, b) == DAdd(a, DNeg(b))

\* num / den (integers, den > 0, num >= 0) rounded to a double with sign s
\* and scaled by 2^e: the quotient is taken to MantDig + 2 bits, the rest
\* is the sticky bit.
DivRound(s, num, den, e) ==
  LET k == Max2(0, MantDig + 2 + BitLen(den) - BitLen(num))
      n2 == num * (2 ^ k)
  IN  DRound(s, n2 \div den, e - k, n2 % den # 0)

\* a / b on doubles.
DDiv(a, b) ==
  IF IsNaN(a) \/ IsNaN(b) THEN DNaN
  ELSE IF IsInf(a) THEN (IF IsInf(b) THEN DNaN ELSE DInf(Sgn(a.m) * Sgn(b.m)))
  ELSE IF IsInf(b) THEN DZero
  ELSE IF b = DZero THEN (IF a = DZero THEN DNaN ELSE DInf(Sgn(a.m)))
  ELSE DivRound(Sgn(a.m) * Sgn(b.m), Abs(a.m), Abs(b.m), a.e - b.e)

\* The double nearest to the rational num / den (den > 0).
DRat(num, den) == DivRound(Sgn(num), Abs(num), den, 0)

\* Whether the double d is exactly the rational num / den.
DIsRat(d, num, den) ==
  /\ IsFin(d)
  /\ IF d.e >= 0 THEN d.m * (2 ^ d.e) * den = num
     ELSE d.m * den = num * (2 ^ (-d.e))


\* Whether the finite double d holds an integer, and that integer.
DIsInt(d) == IsFin(d) /\ d.e >= 0
DInt(d) == d.m * (2 ^ d.e)

\* (int) d for a finite double d: the fraction is discarded (toward zero).
DToInt(d) ==
  IF d.e >= 0 THEN d.m * (2 ^ d.e)
  ELSE Sgn(d.m) * (Abs(d.m) \div (2 ^ (-d.e)))

\* ------------------------------------------------------------------ IntVec
INIT_SIZE == 256

\* data holds the cells written so far, cell j of the C array at data[j + 1];
\* the cells from Len(data) to capacity - 1 are allocated and uninitialized.
new_intvec == [data |-> <<>>, size |-> 0, capacity |-> INIT_SIZE]

\* data[at] = v on the C array (at counted from 0).
StoreCell(data, at, v) ==
  IF at < Len(data) THEN [data EXCEPT ![at + 1] = v]
  ELSE Append(data, v)

\* A growth that allocates the doubled block without carrying the old cells
\* over (malloc for realloc): the cells read back as zeros.
vec_append_nocopy(vec, v) ==
  LET grown == IF vec.size >= vec.capacity
               THEN [vec EXCEPT !.capacity = 2 * vec.capacity,
                                !.data = [j \in 1..Len(vec.data) |-> 0]]
               ELSE vec
  IN  [grown EXCEPT !.data = StoreCell(grown.data, grown.size, v),
                    !.size = grown.size + 1]

vec_append(vec, v) ==
  LET grown == IF vec.size >= vec.capacity
               THEN [vec EXCEPT !.capacity = 2 * vec.capacity]
               ELSE vec
  IN  [grown EXCEPT !.data = StoreCell(grown.data, grown.size, v),
                    !.size = grown.size + 1]

\* ---------------------------------------------------------------- gradient
Weights(w0, b0) == [w |-> w0, b |-> b0]

\* One pass of the loop body for index j (from 0), with the sign of the
\* target flipped in the residual.
GradTermFlipped(x, y, ws, j) ==
  LET xi == DFromInt(x.data[j + 1])
      yi == DFromInt(y.data[j + 1])
      f_wb == DAdd(DMul(ws.w, xi), ws.b)
  IN  Weights(DMul(DAdd(f_wb, yi), xi), DAdd(f_wb, yi))

\* One pass of the loop body for index j (from 0): (dj_dw_i, dj_db_i).
GradTerm(x, y, ws, j) ==
  LET xi == DFromInt(x.data[j + 1])
      yi == DFromInt(y.data[j + 1])
      f_wb == DAdd(DMul(ws.w, xi), ws.b)
  IN  Weights(DMul(DSub(f_wb, yi), xi), DSub(f_wb, yi))

RECURSIVE GradSum(_, _, _, _, _)
\* The accumulation loop from index j on, acc = (dj_dw, dj_db) so far.
GradSum(x, y, ws, j, acc) ==
  IF j >= x.size THEN acc
  ELSE LET t == GradTerm(x, y, ws, j)
       IN  GradSum(x, y, ws, j + 1, Weights(DAdd(acc.w, t.w), DAdd(acc.b, t.b)))

\* The gradient without the averaging step.
gradient_nomean(x, y, ws) == GradSum(x, y, ws, 0, Weights(DZero, DZero))

gradient(x, y, ws) ==
  LET s == GradSum(x, y, ws, 0, Weights(DZero, DZero))
      n == DFromInt(x.size)
  IN  Weights(DDiv(s.w, n), DDiv(s.b, n))

\* ----------------------------------------------------------------- strings
\* A C string is the sequence of its characters.
S_w == <<"w">>
S_b == <<"b">>
S_alpha == <<"a", "l", "p", "h", "a">>
S_iterations == <<"i", "t", "e", "r", "a", "t", "i", "o", "n", "s">>
S_log_every == <<"l", "o", "g", "-", "e", "v", "e", "r", "y">>
S_output == <<"o", "u", "t", "p", "u", "t">>

DigitChars == <<"0", "1", "2", "3", "4", "5", "6", "7", "8", "9">>
IsDigit(c) == \E d \in 1..10 : DigitChars[d] = c
DigitVal(c) == (CHOOSE d \in 1..10 : DigitChars[d] = c) - 1

RECURSIVE AtofScan(_, _, _, _, _, _)
\* The decimal scan of strtod from position p of s: digits, at most one
\* point, more digits; it stops at the first character that fits neither.
\* num / den is the number read so far, seen whether a digit was read.
AtofScan(s, p, num, den, infrac, seen) ==
  IF p > Len(s) THEN [num |-> num, den |-> den, seen |-> seen]
  ELSE IF IsDigit(s[p])
       THEN AtofScan(s, p + 1, num * 10 + DigitVal(s[p]),
                     IF infrac THEN den * 10 ELSE den, infrac, TRUE)
  ELSE IF s[p] = "." /\ ~infrac THEN AtofScan(s, p + 1, num, den, TRUE, seen)
  ELSE [num |-> num, den |-> den, seen |-> seen]

\* atof(s) for strings in plain decimal notation (sign, digits, point,
\* digits); a string that starts with no number converts to 0.0.
atof(s) ==
  LET neg == Len(s) > 0 /\ s[1] = "-"
      start == IF Len(s) > 0 /\ s[1] \in {"-", "+"} THEN 2 ELSE 1
      r == AtofScan(s, start, 0, 1, FALSE, FALSE)
  IN  IF ~r.seen THEN DZero
      ELSE DivRound(IF neg THEN -1 ELSE 1, r.num, r.den, 0)

\* ------------------------------------------------------------------- fscanf
\* The rest of a text stream as its whitespace-separated tokens.  A token of
\* the pairs file is [int |-> TRUE, val |-> n] (an integer in the range of
\* int) or [int |-> FALSE, val |-> 0] (text that starts no integer).
KEY_WIDTH == 10
VALUE_WIDTH == 100

\* %<width>s on a stream of string tokens: at most width characters of the
\* first token; what is left of a longer token stays in the stream.
ScanStr(in, width) ==
  IF Len(in[1]) <= width THEN [s |-> in[1], rest |-> Tail(in)]
  ELSE [s |-> SubSeq(in[1], 1, width),
        rest |-> <<SubSeq(in[1], width + 1, Len(in[1]))>> \o Tail(in)]

\* fscanf(settings_file, "%10s %100s", key, value): n is the return value
\* (2 with key and value read; otherwise the loop ends).
ScanSetting(in) ==
  IF in = <<>> THEN [n |-> -1, key |-> <<>>, value |-> <<>>, rest |-> in]
  ELSE LET k == ScanStr(in, KEY_WIDTH)
       IN  IF k.rest = <<>>
           THEN [n |-> 1, key |-> k.s, value |-> <<>>, rest |-> k.rest]
           ELSE LET v == ScanStr(k.rest, VALUE_WIDTH)
                IN  [n |-> 2, key |-> k.s, value |-> v.s, rest |-> v.rest]

\* fscanf(input_target_pair_file, "%d %d", &x_temp, &y_temp).
ScanPair(in) ==
  IF in = <<>> THEN [n |-> -1, x |-> 0, y |-> 0, rest |-> in]
  ELSE IF ~in[1].int THEN [n |-> 0, x |-> 0, y |-> 0, rest |-> in]
  ELSE IF Len(in) = 1 THEN [n |-> 1, x |-> in[1].val, y |-> 0, rest |-> Tail(in)]
  ELSE IF ~in[2].int THEN [n |-> 1, x |-> in[1].val, y |-> 0, rest |-> Tail(in)]
  ELSE [n |-> 2, x |-> in[1].val, y |-> in[2].val, rest |-> Tail(Tail(in))]

\* ------------------------------------------------------------------- state
VARIABLES
  pc,            \* where main() stands
  argc,          \* number of command-line words
  pairsFile,     \* the tokens of the input-target pairs file (never changes)
  pairsIn,       \* what input_target_pair_file has not read yet
  settingsFile,  \* the tokens of the settings file (never changes)
  settingsIn,    \* what settings_file has not read yet
  x, y,          \* the two IntVec
  w, b, alpha,   \* settings, doubles
  iterations, every,  \* settings, ints
  output,        \* setting, the output file's name ("" for stdout)
  output_file,   \* "NULL", "open" or "closed"
  weights,       \* the parameters being trained
  ws,            \* the gradient of the last step
  i,             \* the loop counter
  prev,          \* history: the counter and parameters the last step began with
  steps,         \* history: number of steps of the training loop executed
  ubSteps,       \* history: number of those steps begun after undefined behaviour
  outLog,        \* the progress records written, in order
  errLog,        \* the messages written to stderr, in order
  exitCode,      \* the value main returned (-1 while running or killed)
  ub             \* the kinds of undefined behaviour executed so far

vars == <<pc, argc, pairsFile, pairsIn, settingsFile, settingsIn, x, y, w, b,
          alpha, iterations, every, output, output_file, weights, ws, i, prev,
          steps, ubSteps, outLog, errLog, exitCode, ub>>

\* A double that no assignment has reached yet.
DUnset == [k |-> "unset", m |-> 0, e |-> 0]

Msg(m, key) == [msg |-> m, key |-> key]

\* Number of steps the model follows the training loop after it has executed
\* undefined behaviour without being killed.
MaxUbSteps == 2

\* ----------------------------------------------------------------- actions
\* Lines 83-109: the argument count.
CheckArgs ==
  /\ pc = "args"
  /\ IF argc < 2 \/ argc > 3
     THEN /\ errLog' = Append(errLog, Msg("usage", <<>>))
          /\ exitCode' = 1
          /\ pc' = "exit"
     ELSE /\ pc' = "openInput"
          /\ UNCHANGED <<errLog, exitCode>>
  /\ UNCHANGED <<ubSteps, argc, pairsFile, pairsIn, settingsFile, settingsIn, x, y, w, b,
                 alpha, iterations, every, output, output_file, weights, ws, i,
                 prev, steps, outLog, ub>>

\* Lines 112-124: fopen of the pairs file (it opens or it does not), then the
\* two vectors.
OpenInput ==
  /\ pc = "openInput"
  /\ \E opened \in BOOLEAN :
       IF ~opened
       THEN /\ errLog' = Append(errLog, Msg("open_input", <<>>))
            /\ exitCode' = 1
            /\ pc' = "exit"
            /\ UNCHANGED <<x, y>>
       ELSE /\ x' = new_intvec
            /\ y' = new_intvec
            /\ pc' = "readPairs"
            /\ UNCHANGED <<errLog, exitCode>>
  /\ UNCHANGED <<ubSteps, argc, pairsFile, pairsIn, settingsFile, settingsIn, w, b,
                 alpha, iterations, every, output, output_file, weights, ws, i,
                 prev, steps, outLog, ub>>

\* Lines 127-130: one turn of the reading loop, fscanf having returned 2.
ReadPair ==
  /\ pc = "readPairs"
  /\ LET r == ScanPair(pairsIn)
     IN  /\ r.n = 2
         /\ x' = vec_append(x, r.x)
         /\ y' = vec_append(y, r.y)
         /\ pairsIn' = r.rest
  /\ UNCHANGED <<ubSteps, pc, argc, pairsFile, settingsFile, settingsIn, w, b, alpha,
                 iterations, every, output, output_file, weights, ws, i, prev,
                 steps, outLog, errLog, exitCode, ub>>

\* Lines 127, 133-141: fscanf returns something else, the loop ends, the file
\* is closed and the default settings are in place.
EndPairs ==
  /\ pc = "readPairs"
  /\ LET r == ScanPair(pairsIn)
     IN  /\ r.n # 2
         /\ pairsIn' = r.rest
  /\ pc' = IF argc = 3 THEN "openSettings" ELSE "openOutput"
  /\ UNCHANGED <<ubSteps, argc, pairsFile, settingsFile, settingsIn, x, y, w, b, alpha,
                 iterations, every, output, output_file, weights, ws, i, prev,
                 steps, outLog, errLog, exitCode, ub>>

\* Lines 142-151: fopen of the settings file.
OpenSettings ==
  /\ pc = "openSettings"
  /\ \E opened \in BOOLEAN :
       IF ~opened
       THEN /\ errLog' = Append(errLog, Msg("open_settings", <<>>))
            /\ exitCode' = 1
            /\ pc' = "exit"
       ELSE /\ pc' = "readSettings"
            /\ UNCHANGED <<errLog, exitCode>>
  /\ UNCHANGED <<ubSteps, argc, pairsFile, pairsIn, settingsFile, settingsIn, x, y, w, b,
                 alpha, iterations, every, output, output_file, weights, ws, i,
                 prev, steps, outLog, ub>>

\* The strcmp chain with the branch of "b" assigning to w (a copied line).
KeyCaseCopied(key) ==
  IF key = S_b THEN S_w
  ELSE IF key \in {S_w, S_alpha, S_iterations, S_log_every, S_output}
  THEN key ELSE <<>>

\* The key a record is filed under by the strcmp chain of lines 160-174.
KeyCase(key) ==
  IF key \in {S_w, S_b, S_alpha, S_iterations, S_log_every, S_output}
  THEN key ELSE <<>>

\* Lines 158-175: one turn of the settings loop, fscanf having returned 2.
ReadSetting ==
  /\ pc = "readSettings"
  /\ LET r == ScanSetting(settingsIn)
         c == KeyCase(r.key)
     IN  /\ r.n = 2
         /\ settingsIn' = r.rest
         /\ w' = IF c = S_w THEN atof(r.value) ELSE w
         /\ b' = IF c = S_b THEN atof(r.value) ELSE b
         /\ alpha' = IF c = S_alpha THEN atof(r.value) ELSE alpha
         /\ iterations' = IF c = S_iterations THEN DToInt(atof(r.value))
                          ELSE iterations
         /\ every' = IF c = S_log_every THEN DToInt(atof(r.value)) ELSE every
         /\ output' = IF c = S_output THEN r.value ELSE output
         /\ errLog' = IF c = <<>> THEN Append(errLog, Msg("unknown_key", r.key))
                      ELSE errLog
  /\ UNCHANGED <<ubSteps, pc, argc, pairsFile, pairsIn, settingsFile, x, y, output_file,
                 weights, ws, i, prev, steps, outLog, exitCode, ub>>

\* Lines 158, 178: fscanf returns something else, the loop ends and the
\* settings file is closed.
CloseSettings ==
  /\ pc = "readSettings"
  /\ LET r == ScanSetting(settingsIn)
     IN  /\ r.n # 2
         /\ settingsIn' = r.rest
  /\ pc' = "openOutput"
  /\ UNCHANGED <<ubSteps, argc, pairsFile, pairsIn, settingsFile, x, y, w, b, alpha,
                 iterations, every, output, output_file, weights, ws, i, prev,
                 steps, outLog, errLog, exitCode, ub>>

\* Lines 182-201: fopen of the output file when one is named, then the
\* initial weights and i = 0.
OpenOutput ==
  /\ pc = "openOutput"
  /\ \E opened \in BOOLEAN :
       IF output # <<>> /\ ~opened
       THEN /\ errLog' = Append(errLog, Msg("open_output", <<>>))
            /\ exitCode' = 1
            /\ pc' = "exit"
            /\ UNCHANGED <<output_file, weights, i>>
       ELSE /\ output_file' = IF output # <<>> THEN "open" ELSE "NULL"
            /\ weights' = Weights(w, b)
            /\ i' = 0
            /\ pc' = "loop"
            /\ UNCHANGED <<errLog, exitCode>>
  /\ UNCHANGED <<ubSteps, argc, pairsFile, pairsIn, settingsFile, settingsIn, x, y, w, b,
                 alpha, iterations, every, output, ws, prev, steps, outLog, ub>>

\* Lines 206-207: the update of the weights by the gradient g.
Update(wts, a, g) ==
  Weights(DSub(wts.w, DMul(a, g.w)), DSub(wts.b, DMul(a, g.b)))

\* A progress record that shows the weights the step began with.
LoggedBefore(old, new) == old

\* Lines 214-219: the weights a progress record shows, old being the weights
\* the step began with and new the weights after its update.
Logged(old, new) == new

\* Line 211: i % every == 0, for every # 0 and no overflow of the remainder.
LogDue(n, k) == n % Abs(k) = 0

\* Lines 201-221: one turn of the training loop.  i % every is undefined for
\* every = 0 and for INT_MIN % -1, and i++ is undefined at INT_MAX: the build
\* either traps (the process is killed) or goes on, with either outcome of
\* the test and with the counter wrapped around.
LoopStep ==
  /\ pc = "loop"
  /\ i <= iterations
  /\ ubSteps < MaxUbSteps
  /\ LET g == gradient(x, y, weights)
         nw == Update(weights, alpha, g)
         remUB == IF every = 0 THEN {"div_by_zero"}
                  ELSE IF i = INT_MIN /\ every = -1 THEN {"rem_overflow"}
                  ELSE {}
         incUB == IF i = INT_MAX THEN {"int_overflow"} ELSE {}
         rec == [i |-> i, w |-> Logged(weights, nw).w, b |-> Logged(weights, nw).b,
                 to |-> IF output_file # "NULL" THEN "file" ELSE "stdout"]
     IN  /\ ws' = g
         /\ weights' = nw
         /\ prev' = [i |-> i, w |-> weights.w, b |-> weights.b]
         /\ steps' = steps + 1
         /\ ubSteps' = IF ub # {} THEN ubSteps + 1 ELSE ubSteps
         /\ \E remTrap \in BOOLEAN, due \in BOOLEAN, incTrap \in BOOLEAN :
              /\ remUB = {} => ~remTrap /\ due = LogDue(i, every)
              /\ remTrap => ~due /\ ~incTrap
              /\ incUB = {} => ~incTrap
              /\ outLog' = IF due THEN Append(outLog, rec) ELSE outLog
              /\ ub' = IF remTrap THEN ub \cup remUB ELSE ub \cup remUB \cup incUB
              /\ pc' = IF remTrap \/ incTrap THEN "crash" ELSE "loop"
              /\ i' = IF remTrap \/ incTrap THEN i
                      ELSE IF incUB # {} THEN INT_MIN ELSE i + 1
  /\ UNCHANGED <<argc, pairsFile, pairsIn, settingsFile, settingsIn, x, y, w, b,
                 alpha, iterations, every, output, output_file, errLog, exitCode>>

\* Line 201: the loop condition fails.
LoopExit ==
  /\ pc = "loop"
  /\ ~(i <= iterations)
  /\ pc' = "close"
  /\ UNCHANGED <<ubSteps, argc, pairsFile, pairsIn, settingsFile, settingsIn, x, y, w, b,
                 alpha, iterations, every, output, output_file, weights, ws, i,
                 prev, steps, outLog, errLog, exitCode, ub>>

\* Lines 224-231: fclose(output_file), the frees and return 0.  fclose(NULL)
\* is undefined: the process is killed, or the call returns.
CloseOutput ==
  /\ pc = "close"
  /\ IF output_file = "NULL"
     THEN /\ ub' = ub \cup {"fclose_null"}
          /\ \E killed \in BOOLEAN :
               /\ pc' = IF killed THEN "crash" ELSE "exit"
               /\ exitCode' = IF killed THEN exitCode ELSE 0
          /\ UNCHANGED output_file
     ELSE /\ output_file' = "closed"
          /\ exitCode' = 0
          /\ pc' = "exit"
          /\ UNCHANGED ub
  /\ UNCHANGED <<ubSteps, argc, pairsFile, pairsIn, settingsFile, settingsIn, x, y, w, b,
                 alpha, iterations, every, output, weights, ws, i, prev, steps,
                 outLog, errLog>>

\* Line 203 alone: the gradient evaluator applied to the series and weights.
CallGradient ==
  /\ pc = "gradient"
  /\ ws' = gradient(x, y, weights)
  /\ pc' = "gradientDone"
  /\ UNCHANGED <<ubSteps, argc, pairsFile, pairsIn, settingsFile, settingsIn, x, y, w, b,
                 alpha, iterations, every, output, output_file, weights, i,
                 prev, steps, outLog, errLog, exitCode, ub>>

\* ------------------------------------------------------------------ inputs
\* Lines 136-138: the default settings.
DEFAULT_ITERATIONS == 100000
DEFAULT_EVERY == 100
DefaultAlpha == DRat(1, 100000)

\* Tokens of a pairs file.
I(n) == [int |-> TRUE, val |-> n]
Bad == [int |-> FALSE, val |-> 0]

RECURSIVE NatStr(_)
\* The decimal digits of a natural number, and of an integer.
NatStr(n) ==
  IF n < 10 THEN <<DigitChars[n + 1]>>
  ELSE NatStr(n \div 10) \o <<DigitChars[(n % 10) + 1]>>
IntStr(n) == IF n < 0 THEN <<"-">> \o NatStr(-n) ELSE NatStr(n)

\* Largest small iteration count and logging interval of the settings files
\* of the whole-program runs.
MaxIter == 2
MaxEvery == 2

\* The pairs files of the whole-program runs: empty, the line y = x + 1, one
\* pair, a file with text after its first pair, a file ending in half a pair.
PairFilesMain ==
  { <<>>,
    <<I(1), I(2), I(2), I(3), I(3), I(4)>>,
    <<I(1), I(1)>>,
    <<I(1), I(2), Bad, I(5), I(5)>>,
    <<I(2), I(3), I(3)>> }

\* The settings files of the whole-program runs: an iterations record, then
\* optional log-every, alpha, w and output records.
SettingsFilesMain ==
  { it \o ev \o al \o wr \o ou :
      it \in { <<S_iterations, IntStr(n)>> : n \in (-1..MaxIter) \cup {INT_MAX} },
      ev \in { <<>> } \cup { <<S_log_every, IntStr(n)>> : n \in -1..MaxEvery },
      al \in { <<>>, <<S_alpha, <<"0", ".", "5">>>> },
      wr \in { <<>>, <<S_w, <<"1">>>> },
      ou \in { <<>>, <<S_output, <<"o", "u", "t">>>> } }

\* What every run starts from, given its command line and files.
Start(p, n, pf, sf, wts) ==
  /\ pc = p
  /\ argc = n
  /\ pairsFile = pf
  /\ pairsIn = pf
  /\ settingsFile = sf
  /\ settingsIn = sf
  /\ w = DZero
  /\ b = DZero
  /\ alpha = DefaultAlpha
  /\ iterations = DEFAULT_ITERATIONS
  /\ every = DEFAULT_EVERY
  /\ output = <<>>
  /\ output_file = "NULL"
  /\ weights = wts
  /\ ws = Weights(DUnset, DUnset)
  /\ i = 0
  /\ prev = [i |-> -1, w |-> DUnset, b |-> DUnset]
  /\ steps = 0
  /\ ubSteps = 0
  /\ outLog = <<>>
  /\ errLog = <<>>
  /\ exitCode = -1
  /\ ub = {}

\* The whole program, from the first line of main: a wrong argument count, or
\* a pairs file and a settings file that names a small iteration count (the
\* default of 100000 iterations is more than TLC walks).
Init ==
  /\ x = new_intvec
  /\ y = new_intvec
  /\ \/ \E n \in {1, 4} : Start("args", n, <<>>, <<>>, Weights(DUnset, DUnset))
     \/ \E pf \in PairFilesMain, sf \in SettingsFilesMain : 
          Start("args", 3, pf, sf, Weights(DUnset, DUnset))

Next ==
  \/ CheckArgs
  \/ OpenInput
  \/ ReadPair
  \/ EndPairs
  \/ OpenSettings
  \/ ReadSetting
  \/ CloseSettings
  \/ OpenOutput
  \/ LoopStep
  \/ LoopExit
  \/ CloseOutput

Spec == Init /\ [][Next]_vars

\* ------------------------------------------------------- ingestion alone
\* Pairs beyond two full capacities in the longest pairs file.
MaxExtraPairs == 2

\* The j-th pair of the long pairs files (j from 1).
PatX(j) == (j % 7) - 3
PatY(j) == ((3 * j) % 5) + 1
PatPairs(n) ==
  [t \in 1..(2 * n) |-> IF t % 2 = 1 THEN I(PatX((t + 1) \div 2))
                        ELSE I(PatY(t \div 2))]

\* Pairs files around the capacities 256 and 512, each ending at the end of
\* the file, in text followed by more pairs, or in half a pair.
PairFilesLong ==
  { PatPairs(n) \o tl :
      n \in {0, 1, INIT_SIZE - 1, INIT_SIZE, INIT_SIZE + 1, 2 * INIT_SIZE,
             2 * INIT_SIZE + MaxExtraPairs},
      tl \in { <<>>, <<Bad, I(5), I(6)>>, <<I(5)>>, <<I(5), Bad, I(6)>> } }

\* Lines 123-133 alone: the reading loop on a long pairs file.
InitIngest ==
  /\ x = new_intvec
  /\ y = new_intvec
  /\ \E pf \in PairFilesLong : 
       Start("readPairs", 2, pf, <<>>, Weights(DUnset, DUnset))

NextIngest ==
  \/ ReadPair
  \/ EndPairs

SpecIngest == InitIngest /\ [][NextIngest]_vars

\* -------------------------------------------------------- settings alone
\* Longest settings file, in records.
MaxRecords == 3

\* A key of 11 characters and a value of 101.
S_long_key == S_log_every \o <<"-", "n">>
S_long_value == [t \in 1..(VALUE_WIDTH + 1) |-> "a"]

\* The records of the settings files: every option, some twice with
\* different values, a value with a fraction, a value that is no number, an
\* unknown key, and a key and a value longer than the fields that hold them.
SettingRecords ==
  { <<S_w, <<"1">>>>,
    <<S_w, <<"2", ".", "5">>>>,
    <<S_w, <<"a", "b", "c">>>>,
    <<S_b, <<"-", "3">>>>,
    <<S_alpha, <<"0", ".", "5">>>>,
    <<S_iterations, <<"3", ".", "7", "5">>>>,
    <<S_log_every, <<"-", "2">>>>,
    <<S_output, <<"o", "u", "t">>>>,
    <<S_output, S_long_value>>,
    <<<<"f", "o", "o">>, <<"1">>>>,
    <<S_long_key, <<"5">>>> }

RECURSIVE RecordFiles(_)
\* The settings files of exactly n records.
RecordFiles(n) ==
  IF n = 0 THEN { <<>> }
  ELSE { f \o r : f \in RecordFiles(n - 1), r \in SettingRecords }

\* Files of up to MaxRecords records, each also with a last key that has no
\* value.
SettingsFilesAll ==
  { f \o tl : f \in UNION { RecordFiles(n) : n \in 0..MaxRecords },
              tl \in { <<>>, <<S_w>> } }

\* Lines 136-178 alone: the settings loop on each of these files.
InitSettings ==
  /\ x = new_intvec
  /\ y = new_intvec
  /\ \E sf \in SettingsFilesAll : 
       Start("readSettings", 3, <<>>, sf, Weights(DUnset, DUnset))

NextSettings ==
  \/ ReadSetting
  \/ CloseSettings

SpecSettings == InitSettings /\ [][NextSettings]_vars

\* ------------------------------------------------------- gradient alone
RECURSIVE VecOf(_)
\* The vector that appending the elements of the sequence s produces.
VecOf(s) ==
  IF s = <<>> THEN new_intvec
  ELSE vec_append(VecOf(SubSeq(s, 1, Len(s) - 1)), s[Len(s)])

\* Longest series given to the gradient (besides the three points of the
\* line y = x + 1), and the values of its samples.
MaxSamples == 2
SampleX == {-1, 1, 2, 3}
SampleY == {1, 2, 3, 4}

RECURSIVE Series(_)
\* The series of exactly n samples, as sequences of <<x, y>>.
Series(n) ==
  IF n = 0 THEN { <<>> }
  ELSE { s \o <<p>> : s \in Series(n - 1), p \in SampleX \X SampleY }

SeriesAll ==
  UNION { Series(n) : n \in 1..MaxSamples }
    \cup { << <<1, 2>>, <<2, 3>>, <<3, 4>> >> }

\* The integer weights and biases the gradient is evaluated at; 7 * 3 = 21
\* is the first product that MantDig = 4 bits do not hold.
WeightInts == {0, 1, 7}
BiasInts == {0, 1, -20}

\* Lines 57-77 alone: the gradient of each series at each pair of weights.
InitGrad ==
  /\ \E s \in SeriesAll :
       /\ x = VecOf([j \in 1..Len(s) |-> s[j][1]])
       /\ y = VecOf([j \in 1..Len(s) |-> s[j][2]])
  /\ \E wi \in WeightInts, bi \in BiasInts :
       Start("gradient", 2, <<>>, <<>>, Weights(DFromInt(wi), DFromInt(bi)))

NextGrad == CallGradient

SpecGrad == InitGrad /\ [][NextGrad]_vars

\* ------------------------------------------------------------------ claims
Last(q) == q[Len(q)]
Zero2 == Weights(DZero, DZero)
IsPositive(d) == (IsFin(d) \/ IsInf(d)) /\ d.m > 0
\* The training loop has been left through its condition.
LoopOver == pc = "close" \/ (pc = "exit" /\ exitCode = 0)

\* C1 as stated: a progress record shows the parameters held before the
\* update of its step, and the record of iteration 0 shows the configured
\* (w, b) unmodified.
Cex_C1_PreUpdateSnapshot ==
  /\ (outLog # <<>> /\ Last(outLog).i = prev.i)
       => (Last(outLog).w = prev.w /\ Last(outLog).b = prev.b)
  /\ (outLog # <<>> /\ outLog[1].i = 0)
       => (outLog[1].w = w /\ outLog[1].b = b)

\* C1 as amended: the progress record a step emits shows the parameters after
\* the update of that step, that is the parameters the step began with moved
\* by alpha times the gradient at them; so does the record of iteration 0,
\* with the configured (w, b).
Thm_C1_PostUpdateSnapshot ==
  /\ (outLog # <<>> /\ Last(outLog).i = prev.i)
       => LET old == Weights(prev.w, prev.b)
              new == Update(old, alpha, gradient(x, y, old))
          IN  Last(outLog).w = new.w /\ Last(outLog).b = new.b
  /\ (outLog # <<>> /\ outLog[1].i = 0 /\ steps >= 1)
       => LET new == Update(Weights(w, b), alpha, gradient(x, y, Weights(w, b)))
          IN  outLog[1].w = new.w /\ outLog[1].b = new.b

\* C1's case: a step after the first has just emitted a record, and its
\* update moved both parameters.
Wit_C1_RecordAfterUpdate ==
  /\ outLog # <<>>
  /\ Last(outLog).i = prev.i
  /\ prev.i > 0
  /\ IsFin(Last(outLog).w) /\ IsFin(prev.w)
  /\ Last(outLog).w # prev.w
  /\ Last(outLog).b # prev.b

\* C2 as stated: for iterations = N >= 0 and log-every = k >= 1 the records
\* are those of the multiples of k in 0..N, one each, in increasing order,
\* all of them once the loop is over.
Cex_C2_RecordsAtMultiples ==
  (iterations >= 0 /\ every >= 1)
    => /\ \A j \in 1..Len(outLog) :
            /\ outLog[j].i = (j - 1) * every
            /\ outLog[j].i \in 0..iterations
       /\ LoopOver => Len(outLog) = (iterations \div every) + 1

\* C3 as stated: with an empty series the run is rejected before the training
\* loop: the loop is not entered, the gradient is not evaluated, no record is
\* emitted and the exit code is not zero.
Cex_C3_EmptySeriesRejected ==
  (x.size = 0 /\ pc \notin {"args", "openInput", "readPairs"})
    => /\ pc \notin {"loop", "close"}
       /\ ws = Weights(DUnset, DUnset)
       /\ outLog = <<>>
       /\ pc = "exit" => exitCode # 0

\* C4 as stated: with a non-empty series and a positive learning rate the
\* training loop executes nothing undefined and is not killed, whatever the
\* iteration count and logging interval.
Cex_C4_LoopRaisesNoError ==
  (x.size > 0 /\ IsPositive(alpha) /\ pc \in {"loop", "close"})
    => ub = {}

\* C5 as stated: for every iterations = N >= 0 that an int holds, the loop
\* makes N + 1 steps and exits: never more, and exactly that many once it is
\* over.
Cex_C5_LoopBounded ==
  (iterations >= 0 /\ iterations <= INT_MAX)
    => /\ steps <= iterations + 1
       /\ LoopOver => steps = iterations + 1

\* C6 as stated: close is applied only to a stream that was opened and is
\* open, and no opened output stream is left open when main returns.
Cex_C6_CloseOnlyOpened ==
  /\ "fclose_null" \notin ub
  /\ pc = "exit" => output_file # "open"

\* Number of well-formed records (two integers) at the head of a pairs file:
\* the whole pairs before its first token that is no integer.
WellFormed(file) ==
  LET bad == { t \in 1..Len(file) : ~file[t].int }
      first == IF bad = {} THEN Len(file) + 1
               ELSE CHOOSE t \in bad : \A t2 \in bad : t <= t2
  IN  (first - 1) \div 2

\* C7: during and after ingestion both vectors hold, in input order, the
\* pairs of the records read; once reading is over they hold exactly the
\* well-formed records before the first malformed one (or the end), however
\* many doublings of the capacity that took.
Thm_C7_Ingestion ==
  LET m == WellFormed(pairsFile)
  IN  /\ x.size = y.size
      /\ Len(x.data) = x.size /\ Len(y.data) = y.size
      /\ x.size <= x.capacity /\ y.size <= y.capacity
      /\ x.size <= m
      /\ pc # "readPairs" => x.size = m
      /\ \A j \in 1..x.size :
           /\ x.data[j] = pairsFile[2 * j - 1].val
           /\ y.data[j] = pairsFile[2 * j].val

\* C7's case: reading has ended at a malformed record after more pairs than
\* two doublings of the capacity hold.
Wit_C7_TwoDoublings ==
  /\ pc # "readPairs"
  /\ x.size > 2 * INIT_SIZE
  /\ x.capacity = 4 * INIT_SIZE
  /\ 2 * x.size + 2 <= Len(pairsFile)

\* The records of a settings file and the last one with a given key (0 when
\* there is none).
NRecords(file) == Len(file) \div 2
LastRecord(file, key) ==
  LET js == { j \in 1..NRecords(file) : file[2 * j - 1] = key }
  IN  IF js = {} THEN 0 ELSE CHOOSE j \in js : \A j2 \in js : j2 <= j
LastValue(file, key) == file[2 * LastRecord(file, key)]
Recognized == {S_w, S_b, S_alpha, S_iterations, S_log_every, S_output}
\* A settings file in the format of the stream: keys of at most 10
\* characters, values of at most 100.
InFormat(file) ==
  \A t \in 1..Len(file) :
    Len(file[t]) <= (IF t % 2 = 1 THEN KEY_WIDTH ELSE VALUE_WIDTH)

IsLineAtZero ==
  /\ pc = "gradientDone"
  /\ x.data = <<1, 2, 3>> /\ y.data = <<2, 3, 4>>
  /\ weights = Zero2

\* C8 as stated: there the gradient is dw = -6.0, db = -3.0.
Cex_C8_GradientMinusSix ==
  IsLineAtZero => (DIsRat(ws.w, -6, 1) /\ DIsRat(ws.b, -3, 1))

\* C8 as amended: there the gradient is dw = -20/3 rounded to a double (the
\* sum of the three terms -2, -6, -12 divided by 3), db = -3.0.
Thm_C8_GradientMinusTwentyThirds ==
  IsLineAtZero => (ws.w = DRat(-20, 3) /\ ~DIsRat(ws.w, -6, 1) /\ DIsRat(ws.b, -3, 1))

Wit_C8_LineAtZero == IsLineAtZero /\ IsFin(ws.w) /\ ws.w.m < 0

\* The series lies on the line of the integer weights (w, b).
PerfectFit ==
  /\ x.size > 0
  /\ DIsInt(weights.w) /\ DIsInt(weights.b)
  /\ \A j \in 1..x.size :
       y.data[j] = DInt(weights.w) * x.data[j] + DInt(weights.b)

\* Every product w * x[i] is a double.
ProductsExact ==
  \A j \in 1..x.size :
    DIsRat(DMul(weights.w, DFromInt(x.data[j])), DInt(weights.w) * x.data[j], 1)

\* C10 as stated: on a series that lies on the line of integer (w, b), the
\* gradient at (w, b) is exactly (0, 0).
Cex_C10_ZeroAtPerfectFit ==
  (pc = "gradientDone" /\ PerfectFit) => ws = Zero2

\* C10 as amended: on a series that lies on the line of integer (w, b), with
\* every product w * x[i] exactly representable as a double, the gradient at
\* (w, b) is exactly (0, 0).
Thm_C10_ZeroAtExactPerfectFit ==
  (pc = "gradientDone" /\ PerfectFit /\ ProductsExact) => ws = Zero2

\* C10's case: two samples with different x on the line of non-zero (w, b).
Wit_C10_TwoPointFit ==
  /\ pc = "gradientDone"
  /\ PerfectFit /\ ProductsExact
  /\ x.size >= 2 /\ x.data[1] # x.data[2]
  /\ weights.w # DZero /\ weights.b # DZero
  /\ ws = Zero2

=============================================================================
